---- MODULE Spec2Model ----
(***************************************************************************)
(* Ledger store of the bookkeeping application (context/AppContext.tsx,    *)
(* kept as src/unnamed/part_000): the transaction list, the denomination   *)
(* vault, the two persisted blobs and the operations load, addTransaction, *)
(* updateTransaction and deleteTransactionsByIds.                          *)
(*                                                                         *)
(* Encoding.  A string id is a record of a prefix and a number, the empty  *)
(* string "" being EmptyId.  A date is the millisecond time                *)
(* new Date(date).getTime() yields.  A JSON number is an integer count of  *)
(* tenths (37 is 3.7), so that Math.floor is a real conversion.  The       *)
(* fields amount, company, person, location and notes are carried by the   *)
(* code unchanged and never read by the vault arithmetic, the sort or the  *)
(* visibility filter; they are left out of the records.                    *)
(***************************************************************************)
EXTENDS Integers, Sequences, FiniteSets, TLC

VARIABLES
    storage,          \* localStorage: the blobs under 'transactions' and 'vault'
    currentUser,      \* localStorage 'ali_enterprises_user' (name, or NoUser)
    mounted,          \* the provider has run its mount effects
    allTransactions,  \* useState allTransactions
    vault,            \* useState vault
    transactions,     \* the filtered list of the last render, which the callbacks capture
    nextId,           \* number of ids generated so far
    updates,          \* number of updateTransaction calls so far
    unrendered,       \* ledger operations called since the last render
    mirror,           \* syncStatus, googleSheetsConnected and the calls awaited
    last,             \* history: the last ledger operation and its arguments
    undo              \* history: the last delete of one record, while recorded

vars == <<storage, currentUser, mounted, allTransactions, vault, transactions,
          nextId, updates, unrendered, mirror, last, undo>>

-----------------------------------------------------------------------------
(* Bounds *)

MaxTx == 2        \* addTransaction is offered while the list is shorter than this
MaxClock == 1     \* new Date() reads a time in 0..MaxClock
MaxRaw == 2       \* longest persisted raw list drawn at Init
MaxIds == 2       \* ids addTransaction may generate in one behaviour of Spec
MaxAdds == 3      \* addTransaction calls in one behaviour of SpecAdd
MaxUpdates == 1   \* updateTransaction calls in one behaviour
MaxBatch == 2     \* ledger operations called between two renders
MaxDeletes == 1   \* deleteTransactionsByIds calls whose mirror calls are followed
MaxPending == 2   \* a ledger operation is offered while fewer calls are awaited

(* Program constants *)

DENOMINATIONS == {500, 100, 50, 20}

Users == {"alice", "bob"}
NoUser == "none"

Range(s) == {s[i] : i \in 1..Len(s)}

-----------------------------------------------------------------------------
(* Vault values *)

initializeVault == [d \in DENOMINATIONS |-> 0]

\* breakdown[d] of a NoteCounts whose key may be absent
CountOf(b, d) == IF d \in DOMAIN b THEN b[d] ELSE 0

EmptyBreakdown == [d \in {} |-> 0]


\* The vault effect of a stored transaction on denomination d: +count for a
\* cash credit, -count for a cash debit, nothing for upi
Effect(tx, d) ==
    IF tx.paymentMethod = "cash"
    THEN IF tx.type = "credit" THEN CountOf(tx.breakdown, d)
         ELSE IF tx.type = "debit" THEN 0 - CountOf(tx.breakdown, d)
         ELSE 0
    ELSE 0

\* Sum of the effects of a list of transactions on d
RECURSIVE SumEffect(_, _)
SumEffect(list, d) ==
    IF list = <<>> THEN 0 ELSE Effect(Head(list), d) + SumEffect(Tail(list), d)

-----------------------------------------------------------------------------
(* Sorting: Array.prototype.sort with (a, b) => time(b) - time(a), a stable *)
(* sort, newest first                                                      *)

\* e placed after every element whose date is not older than e's
InsertDesc(list, e) ==
    LET k == Cardinality({i \in 1..Len(list) : list[i].date >= e.date})
    IN  SubSeq(list, 1, k) \o <<e>> \o SubSeq(list, k + 1, Len(list))

\* No sort: the list as it was built
Unsorted(list) == list

RECURSIVE SortFrom(_, _)
SortFrom(done, rest) ==
    IF rest = <<>> THEN done
    ELSE SortFrom(InsertDesc(done, Head(rest)), Tail(rest))

SortByDateDesc(list) == SortFrom(<<>>, list)

\* The list the provider exposes: allTransactions of the current user
VisibleTo(list, user) ==
    LET Mine(tx) == user # NoUser /\ tx.recordedBy = user
    IN  SelectSeq(list, Mine)

-----------------------------------------------------------------------------
(* Persisted data as JSON.parse returns it.  Every raw value carries its   *)
(* JavaScript type in k, so that typeof and isFinite are decided as the    *)
(* code decides them.                                                      *)

\* String ids: pre/n name the string, "" is the empty string
EmptyId == [pre |-> "", n |-> 0]
StrId(n) == [pre |-> "s", n |-> n]
\* `txn_${time}_${random}` of the n-th generated id
TxnId(n) == [pre |-> "txn", n |-> n]

Num(tenths) == [k |-> "num", v |-> tenths]    \* a finite number, in tenths
NaNCount == [k |-> "nan", v |-> 0]            \* typeof NaN is 'number'
InfCount == [k |-> "inf", v |-> 0]            \* Infinity
StrCount == [k |-> "str", v |-> 0]            \* a string such as "x"

\* The check without count >= 0
ValidCountAnySign(c) == c.k = "num"

\* typeof count === 'number' && isFinite(count) && count >= 0
ValidCount(c) == c.k = "num" /\ c.v >= 0

\* Math.floor of a number given in tenths
Floor(c) == c.v \div 10

\* A raw breakdown / vault value: not an object, or an object with raw counts
NoObject == [k |-> "none", m |-> [d \in {} |-> Num(0)]]
Obj(m) == [k |-> "obj", m |-> m]

\* A raw list entry
Raw(isObject, idk, id, type, pm, date, by, bd) ==
    [isObject |-> isObject, id |-> [k |-> idk, v |-> id], type |-> type,
     paymentMethod |-> pm, date |-> date, recordedBy |-> by, breakdown |-> bd]

IsoDate(t) == [k |-> "iso", t |-> t]     \* a parseable date string
NumDate(t) == [k |-> "num", t |-> t]     \* a number used as date
BadDate == [k |-> "bad", t |-> 0]        \* a string Date cannot parse
NoDate == [k |-> "none", t |-> 0]        \* undefined

StrVal(x) == [k |-> "str", v |-> x]
NoVal == [k |-> "none", v |-> ""]

\* tx.date && !isNaN(new Date(tx.date).getTime())
ValidDate(d) == \/ d.k = "iso"
                \/ d.k = "num" /\ d.t # 0

\* The check without typeof tx.id !== 'string'
KeepsEntryAnyId(raw) ==
    raw.isObject /\ raw.id.k # "none" /\ raw.id.v # EmptyId

\* !tx || typeof tx !== 'object' || !tx.id || typeof tx.id !== 'string', negated
KeepsEntry(raw) == raw.isObject /\ raw.id.k = "str" /\ raw.id.v # EmptyId

\* The sanitized breakdown of a raw entry whose payment method is pm
SanitizeBreakdown(pm, bd) ==
    IF pm = "cash" /\ bd.k = "obj"
    THEN LET kept == {d \in DENOMINATIONS : d \in DOMAIN bd.m /\ ValidCount(bd.m[d])}
         IN  [d \in kept |-> Floor(bd.m[d])]
    ELSE EmptyBreakdown

\* The migrated transaction of a kept raw entry, at time now
MigrateTx(raw, now) ==
    LET pm == IF raw.paymentMethod \in {"cash", "upi"} THEN raw.paymentMethod ELSE "cash"
    IN  [id |-> raw.id.v,
         type |-> IF raw.type \in {"credit", "debit"} THEN raw.type ELSE "credit",
         paymentMethod |-> pm,
         date |-> IF ValidDate(raw.date) THEN raw.date.t ELSE now,
         recordedBy |-> IF raw.recordedBy.k = "str" THEN raw.recordedBy.v ELSE "system",
         breakdown |-> SanitizeBreakdown(pm, raw.breakdown)]

\* parsedTransactions.map(...).filter(tx => tx !== null)
RECURSIVE MigrateList(_, _)
MigrateList(items, now) ==
    IF items = <<>> THEN <<>>
    ELSE (IF KeepsEntry(Head(items)) THEN <<MigrateTx(Head(items), now)>> ELSE <<>>)
         \o MigrateList(Tail(items), now)

\* The sanitized vault of a parsed vault blob
SanitizeVault(blob) ==
    IF blob.isObject
    THEN [d \in DENOMINATIONS |->
            IF d \in DOMAIN blob.m /\ ValidCount(blob.m[d]) THEN Floor(blob.m[d]) ELSE 0]
    ELSE initializeVault

\* Blobs: getItem returns null (absent), text JSON.parse rejects (malformed),
\* or the value JSON.parse returns
AbsentTx == [k |-> "absent", isArray |-> FALSE, items |-> <<>>]
MalformedTx == [k |-> "malformed", isArray |-> FALSE, items |-> <<>>]
NonArrayTx == [k |-> "json", isArray |-> FALSE, items |-> <<>>]
ArrayTx(items) == [k |-> "json", isArray |-> TRUE, items |-> items]

AbsentVault == [k |-> "absent", isObject |-> FALSE, m |-> [d \in {} |-> Num(0)]]
MalformedVault == [k |-> "malformed", isObject |-> FALSE, m |-> [d \in {} |-> Num(0)]]
NonObjectVault == [k |-> "json", isObject |-> FALSE, m |-> [d \in {} |-> Num(0)]]
ObjectVault(m) == [k |-> "json", isObject |-> TRUE, m |-> m]

\* JSON.stringify of the state, as JSON.parse reads it back
ToRaw(tx) ==
    Raw(TRUE, "str", tx.id, tx.type, tx.paymentMethod, IsoDate(tx.date),
        StrVal(tx.recordedBy),
        Obj([d \in DOMAIN tx.breakdown |-> Num(10 * tx.breakdown[d])]))

Persisted(list, v) ==
    [transactions |-> ArrayTx([i \in 1..Len(list) |-> ToRaw(list[i])]),
     vault |-> ObjectVault([d \in DOMAIN v |-> Num(10 * v[d])])]

\* A load whose catch branch resets only the vault
LoadEffectKeepsList(st, now) ==
    LET list == SortByDateDesc(
                    IF st.transactions.k = "json" /\ st.transactions.isArray
                    THEN MigrateList(st.transactions.items, now) ELSE <<>>)
    IN  IF st.transactions.k = "malformed"
        THEN [caught |-> TRUE, list |-> <<>>, vault |-> initializeVault]
        ELSE IF st.vault.k = "malformed"
        THEN [caught |-> TRUE, list |-> list, vault |-> initializeVault]
        ELSE [caught |-> FALSE, list |-> list,
              vault |-> IF st.vault.k = "json" THEN SanitizeVault(st.vault)
                        ELSE initializeVault]

\* The load effect: the state it sets, and whether its catch branch ran
LoadEffect(st, now) ==
    LET reset == [caught |-> TRUE, list |-> <<>>, vault |-> initializeVault]
    IN  IF st.transactions.k = "malformed" THEN reset
        ELSE IF st.vault.k = "malformed" THEN reset
        ELSE [caught |-> FALSE,
              list |-> SortByDateDesc(
                          IF st.transactions.k = "json" /\ st.transactions.isArray
                          THEN MigrateList(st.transactions.items, now) ELSE <<>>),
              vault |-> IF st.vault.k = "json" THEN SanitizeVault(st.vault)
                        ELSE initializeVault]

\* localStorage when the load effect returns: its catch branch removes both keys
StorageAfterLoad(st, now) ==
    IF LoadEffect(st, now).caught
    THEN [transactions |-> AbsentTx, vault |-> AbsentVault]
    ELSE st

-----------------------------------------------------------------------------
(* The history variables.  last names the last ledger operation with its   *)
(* argument (hit: the rendered list held the id given to an update).       *)
(* undo, in the behaviours that record it, holds the vault before a delete *)
(* of a single record and that record, through the add that follows the    *)
(* delete.                                                                 *)

NoTx == [id |-> EmptyId, type |-> "credit", paymentMethod |-> "upi", date |-> 0,
         recordedBy |-> "system", breakdown |-> EmptyBreakdown]
NoStorage == [transactions |-> AbsentTx, vault |-> AbsentVault]

Op(name) == [op |-> name, tx |-> NoTx, hit |-> FALSE, ids |-> {},
             storage0 |-> NoStorage]

NoUndo(on) == [on |-> on, stage |-> "none", vault0 |-> initializeVault, tx |-> NoTx]

-----------------------------------------------------------------------------
(* The remote mirror (services/googleSheets.ts) and the asynchronous tails *)
(* of the provider's functions.  Every service method issues one fetch and *)
(* awaits it; the function that called the method is suspended at its own  *)
(* await until the method returns.  mirror.calls holds the suspended       *)
(* functions with the request each one waits for.  A fetch may never       *)
(* settle: the call then stays in mirror.calls.                            *)
(* No service method throws (each catches and returns false), so the catch *)
(* branches that follow the awaits in the provider are never entered.      *)
(* mirror.on is FALSE in the behaviours that do not follow the mirror: the *)
(* record then stays as it is.                                             *)

\* How a fetch settles: an opaque no-cors response (status 0, ok false), a
\* response with a 2xx status, a response with another status, a rejection
FetchOutcomes == {"opaque", "ok", "notok", "reject"}

\* return response.ok, and false from the catch branch
ResponseOk(outcome) == outcome = "ok"

\* response.status === 0 || response.ok, and false from the catch branch
StatusZeroOrOk(outcome) == outcome \in {"opaque", "ok"}

\* The boolean a service method returns when its fetch settles
ServiceResult(op, outcome) ==
    IF op \in {"testConnection", "initializeSheet"} THEN ResponseOk(outcome)
    ELSE StatusZeroOrOk(outcome)

\* A suspended function: the method it awaits, the id sent, the ids its loop
\* has still to send and the number of its deleteTransactionsByIds call
Call(op, id, rest, run) == [op |-> op, id |-> id, rest |-> rest, run |-> run]

NoReturn == [op |-> "none", id |-> EmptyId, result |-> FALSE]

\* runs, log, returns and lastReturn are history: the ids array of each
\* followed deleteTransactionsByIds call, the delete requests sent and
\* returned, the number of returns and the last one
NoMirror(on) ==
    [on |-> on, syncStatus |-> "idle", googleSheetsConnected |-> FALSE,
     calls |-> <<>>, runs |-> <<>>, log |-> <<>>, returns |-> 0,
     lastReturn |-> NoReturn]

Event(ev, call, ok) == [ev |-> ev, run |-> call.run, id |-> call.id, ok |-> ok]

\* The method is called and its fetch issued; the caller awaits it
StartCall(m, call) ==
    [m EXCEPT !.calls = Append(@, call),
              !.log = IF call.op = "deleteTransaction"
                      THEN Append(@, Event("send", call, TRUE)) ELSE @]

\* The for loop of deleteTransactionsByIds left at the first reported failure
ResumedStopsOnFailure(m, call, result) ==
    IF call.op = "deleteTransaction" /\ result /\ call.rest # <<>>
    THEN StartCall(m, Call("deleteTransaction", Head(call.rest), Tail(call.rest), call.run))
    ELSE m

\* The function continues after its await with the boolean returned
Resumed(m, call, result) ==
    IF call.op = "testConnection"
    THEN IF result THEN StartCall(m, Call("initializeSheet", EmptyId, <<>>, 0))
         ELSE [m EXCEPT !.googleSheetsConnected = FALSE, !.syncStatus = "error"]
    ELSE IF call.op = "initializeSheet"
    THEN [m EXCEPT !.googleSheetsConnected = TRUE, !.syncStatus = "success"]
    ELSE IF call.op = "addTransaction"
    THEN [m EXCEPT !.syncStatus = "success"]
    ELSE IF call.op = "deleteTransaction" /\ call.rest # <<>>
    THEN StartCall(m, Call("deleteTransaction", Head(call.rest), Tail(call.rest), call.run))
    ELSE m

\* The i-th awaited fetch settles: the method returns and its caller resumes
MirrorAfterReturn(m, i, outcome) ==
    LET call == m.calls[i]
        result == ServiceResult(call.op, outcome)
        returned ==
            [m EXCEPT !.calls = SubSeq(@, 1, i - 1) \o SubSeq(@, i + 1, Len(@)),
                      !.returns = @ + 1,
                      !.lastReturn = [op |-> call.op, id |-> call.id, result |-> result],
                      !.log = IF call.op = "deleteTransaction"
                              THEN Append(@, Event("return", call, result)) ELSE @]
    IN  Resumed(returned, call, result)

\* A return that takes the added transaction out of the list when the mirror
\* reports failure
MirrorReturnsRollsBack(i, outcome) ==
    LET call == mirror.calls[i]
        NotAdded(tx) == tx.id # call.id
    IN  /\ mirror.on
        /\ i \in 1..Len(mirror.calls)
        /\ mirror' = MirrorAfterReturn(mirror, i, outcome)
        /\ allTransactions' =
              IF call.op = "addTransaction" /\ ~ServiceResult(call.op, outcome)
              THEN SelectSeq(allTransactions, NotAdded) ELSE allTransactions
        /\ UNCHANGED <<storage, currentUser, mounted, vault, transactions,
                       nextId, updates, unrendered, last, undo>>

MirrorReturns(i, outcome) ==
    /\ mirror.on
    /\ i \in 1..Len(mirror.calls)
    /\ mirror' = MirrorAfterReturn(mirror, i, outcome)
    /\ UNCHANGED <<storage, currentUser, mounted, allTransactions, vault,
                   transactions, nextId, updates, unrendered, last, undo>>

\* The mount: the state is new, the functions of an earlier page are gone,
\* and checkGoogleSheetsConnection is called unless the load threw
MountMirror(m, caught) ==
    IF ~m.on THEN m
    ELSE IF caught THEN [NoMirror(TRUE) EXCEPT !.runs = m.runs, !.log = m.log,
                                               !.returns = m.returns]
    ELSE [StartCall(NoMirror(TRUE), Call("testConnection", EmptyId, <<>>, 0))
             EXCEPT !.syncStatus = "syncing", !.runs = m.runs, !.log = m.log,
                    !.returns = m.returns]

\* addTransaction: setSyncStatus('syncing'), then the awaited call
AddMirror(m, tx) ==
    IF ~m.on THEN m
    ELSE [StartCall(m, Call("addTransaction", tx.id, <<>>, 0))
             EXCEPT !.syncStatus = "syncing"]

UpdateMirror(m, tx) ==
    IF ~m.on THEN m
    ELSE StartCall(m, Call("updateTransaction", tx.id, <<>>, 0))

\* deleteTransactionsByIds: the for loop reaches its first await, if ids has
\* an element
DeleteMirror(m, ids) ==
    IF ~m.on THEN m
    ELSE LET run == Len(m.runs) + 1
             started == [m EXCEPT !.runs = Append(@, ids)]
         IN  IF ids = <<>> THEN started
             ELSE StartCall(started, Call("deleteTransaction", Head(ids), Tail(ids), run))

-----------------------------------------------------------------------------
(* The persistence effects: after every commit both keys are rewritten     *)
(* from the state                                                          *)

PersistEffects(st, list, v) ==
    [st EXCEPT !.transactions = Persisted(list, v).transactions,
               !.vault = Persisted(list, v).vault]

-----------------------------------------------------------------------------
(* Mount: the load effect, then the persistence effects of the same commit *)

LoadStep(now) ==
    LET r == LoadEffect(storage, now)
    IN  /\ allTransactions' = r.list
        /\ vault' = r.vault
        /\ storage' = PersistEffects(StorageAfterLoad(storage, now), r.list, r.vault)
        /\ transactions' = VisibleTo(r.list, currentUser)
        /\ mounted' = TRUE
        /\ last' = [Op("load") EXCEPT !.storage0 = storage]
        /\ undo' = NoUndo(undo.on)
        /\ unrendered' = 0
        /\ mirror' = MountMirror(mirror, r.caught)
        /\ UNCHANGED <<currentUser, nextId, updates>>

Mount(now) == ~mounted /\ LoadStep(now)

\* The page is loaded again: the provider is constructed and mounted anew
Reload(now) == mounted /\ LoadStep(now)

-----------------------------------------------------------------------------
(* addTransaction *)

\* addTransaction with the counts clamped at zero
AddToVaultClamped(v, tx) ==
    IF tx.paymentMethod = "cash"
    THEN [d \in DOMAIN v |->
            IF d \in DOMAIN tx.breakdown
            THEN IF tx.type = "credit" THEN v[d] + tx.breakdown[d]
                 ELSE IF v[d] - tx.breakdown[d] < 0 THEN 0 ELSE v[d] - tx.breakdown[d]
            ELSE v[d]]
    ELSE v

\* The setVault updater of addTransaction
AddToVault(v, tx) ==
    IF tx.paymentMethod = "cash"
    THEN [d \in DOMAIN v |->
            IF d \in DOMAIN tx.breakdown
            THEN IF tx.type = "credit" THEN v[d] + tx.breakdown[d]
                 ELSE IF tx.type = "debit" THEN v[d] - tx.breakdown[d]
                 ELSE v[d]
            ELSE v[d]]
    ELSE v

NewTransaction(data, now) ==
    [id |-> TxnId(nextId), date |-> now, type |-> data.type,
     paymentMethod |-> data.paymentMethod, recordedBy |-> data.recordedBy,
     breakdown |-> data.breakdown]

AddCore(data, now) ==
    LET newTransaction == NewTransaction(data, now)
    IN  /\ allTransactions' = SortByDateDesc(Append(allTransactions, newTransaction))
        /\ vault' = AddToVault(vault, newTransaction)
        /\ nextId' = nextId + 1
        /\ mirror' = AddMirror(mirror, newTransaction)
        /\ last' = [Op("add") EXCEPT !.tx = newTransaction]
        /\ undo' = IF undo.stage = "deleted" THEN [undo EXCEPT !.stage = "readded"]
                   ELSE NoUndo(undo.on)

\* What follows every state change: the persistence effects and a render
Commit ==
    /\ storage' = PersistEffects(storage, allTransactions', vault')
    /\ transactions' = VisibleTo(allTransactions', currentUser)
    /\ unrendered' = 0

\* The pages that call the ledger operations are rendered inside
\* ProtectedRoute: for an authenticated identity only
Authenticated == mounted /\ currentUser # NoUser

AddTransaction(data, now) ==
    /\ Authenticated
    /\ AddCore(data, now)
    /\ Commit
    /\ UNCHANGED <<currentUser, mounted, updates>>

-----------------------------------------------------------------------------
(* updateTransaction *)

\* transactions.find(tx => tx.id === id): the first match, or none
Find(list, id) ==
    LET hits == {i \in 1..Len(list) : list[i].id = id}
    IN  IF hits = {} THEN <<>>
        ELSE <<list[CHOOSE i \in hits : \A j \in hits : i <= j]>>

\* The revert with the debit branch left out
RevertCreditOnly(v, tx) ==
    IF tx.paymentMethod = "cash" /\ tx.type = "credit"
    THEN [d \in DOMAIN v |-> v[d] - CountOf(tx.breakdown, d)]
    ELSE v

\* Revert a record's vault impact, for the configured denominations
RevertFromVault(v, tx) ==
    IF tx.paymentMethod = "cash"
    THEN [d \in DOMAIN v |->
            IF d \in DOMAIN tx.breakdown /\ d \in DENOMINATIONS
            THEN IF tx.type = "credit" THEN v[d] - tx.breakdown[d]
                 ELSE IF tx.type = "debit" THEN v[d] + tx.breakdown[d]
                 ELSE v[d]
            ELSE v[d]]
    ELSE v

\* Apply a record's vault impact, for the configured denominations
ApplyToVault(v, tx) ==
    IF tx.paymentMethod = "cash"
    THEN [d \in DOMAIN v |->
            IF d \in DOMAIN tx.breakdown /\ d \in DENOMINATIONS
            THEN IF tx.type = "credit" THEN v[d] + tx.breakdown[d]
                 ELSE IF tx.type = "debit" THEN v[d] - tx.breakdown[d]
                 ELSE v[d]
            ELSE v[d]]
    ELSE v

\* An updater that applies the new record also when the original is not found
UpdateVaultAppliesUnfound(v, visible, updatedTransaction) ==
    LET found == Find(visible, updatedTransaction.id)
    IN  IF found = <<>> THEN ApplyToVault(v, updatedTransaction)
        ELSE ApplyToVault(RevertFromVault(v, found[1]), updatedTransaction)

\* The setVault updater of updateTransaction, with the rendered list
UpdateVault(v, visible, updatedTransaction) ==
    LET found == Find(visible, updatedTransaction.id)
    IN  IF found = <<>> THEN v
        ELSE ApplyToVault(RevertFromVault(v, found[1]), updatedTransaction)

\* prevTransactions.map(tx => tx.id === updated.id ? updated : tx)
ReplaceById(list, updatedTransaction) ==
    [i \in 1..Len(list) |->
        IF list[i].id = updatedTransaction.id THEN updatedTransaction ELSE list[i]]

UpdateCore(updatedTransaction) ==
    /\ vault' = UpdateVault(vault, transactions, updatedTransaction)
    /\ allTransactions' = SortByDateDesc(ReplaceById(allTransactions, updatedTransaction))
    /\ mirror' = UpdateMirror(mirror, updatedTransaction)
    /\ last' = [Op("update") EXCEPT !.tx = updatedTransaction,
                  !.hit = \E i \in 1..Len(transactions) :
                             transactions[i].id = updatedTransaction.id]
    /\ undo' = NoUndo(undo.on)

UpdateTransaction(updatedTransaction) ==
    /\ Authenticated
    /\ updates' = updates + 1
    /\ UpdateCore(updatedTransaction)
    /\ Commit
    /\ UNCHANGED <<currentUser, mounted, nextId>>

\* updateTransaction called again through the function of the last render,
\* before the store has rendered: the function still holds that render's list
UpdateTransactionUnrendered(updatedTransaction) ==
    /\ Authenticated
    /\ updates' = updates + 1
    /\ UpdateCore(updatedTransaction)
    /\ unrendered' = unrendered + 1
    /\ UNCHANGED <<storage, transactions, currentUser, mounted, nextId>>

-----------------------------------------------------------------------------
(* deleteTransactionsByIds *)

\* The forEach step with the debit branch left out
RemoveCreditOnly(v, tx) ==
    IF tx.paymentMethod = "cash" /\ tx.type = "credit"
    THEN [d \in DOMAIN v |-> v[d] - CountOf(tx.breakdown, d)]
    ELSE v

\* One forEach step of the setVault updater of deleteTransactionsByIds
RemoveFromVault(v, tx) ==
    IF tx.paymentMethod = "cash"
    THEN [d \in DOMAIN v |->
            IF d \in DOMAIN tx.breakdown
            THEN IF tx.type = "credit" THEN v[d] - tx.breakdown[d]
                 ELSE IF tx.type = "debit" THEN v[d] + tx.breakdown[d]
                 ELSE v[d]
            ELSE v[d]]
    ELSE v

RECURSIVE RevertAll(_, _)
RevertAll(v, list) ==
    IF list = <<>> THEN v
    ELSE RevertAll(RemoveFromVault(v, Head(list)), Tail(list))

DeleteCore(ids) ==
    LET InIds(tx) == tx.id \in ids
        NotInIds(tx) == tx.id \notin ids
        transactionsToDelete == SelectSeq(transactions, InIds)
    IN  /\ vault' = RevertAll(vault, transactionsToDelete)
        /\ allTransactions' = SelectSeq(allTransactions, NotInIds)
        /\ last' = [Op("delete") EXCEPT !.ids = ids]
        /\ undo' = LET gone == {i \in 1..Len(allTransactions) : allTransactions[i].id \in ids}
                   IN  IF undo.on /\ Cardinality(ids) = 1 /\ Cardinality(gone) = 1
                       THEN [on |-> TRUE, stage |-> "deleted", vault0 |-> vault,
                             tx |-> allTransactions[CHOOSE i \in gone : TRUE]]
                       ELSE NoUndo(undo.on)

\* ids is the array given: the store reads it as a set (ids.includes), the
\* mirror loop in its order
DeleteTransactionsByIds(ids) ==
    /\ Authenticated
    /\ DeleteCore(Range(ids))
    /\ mirror' = DeleteMirror(mirror, ids)
    /\ Commit
    /\ UNCHANGED <<currentUser, mounted, nextId, updates>>

\* deleteTransactionsByIds called through the function of the last render,
\* before the store has rendered
DeleteTransactionsByIdsUnrendered(ids) ==
    /\ Authenticated
    /\ DeleteCore(Range(ids))
    /\ mirror' = DeleteMirror(mirror, ids)
    /\ unrendered' = unrendered + 1
    /\ UNCHANGED <<storage, transactions, currentUser, mounted, nextId, updates>>

\* The render that follows the calls, and its persistence effects
Render ==
    /\ unrendered > 0
    /\ storage' = PersistEffects(storage, allTransactions, vault)
    /\ transactions' = VisibleTo(allTransactions, currentUser)
    /\ unrendered' = 0
    /\ UNCHANGED <<currentUser, mounted, allTransactions, vault, nextId, updates,
                   mirror, last, undo>>

-----------------------------------------------------------------------------
(* The environment: the identity provider.  The wall clock is an input of  *)
(* the steps that read it: Times                                           *)

\* The identity provider writes or removes 'ali_enterprises_user' and the
\* application renders for the new identity
SetUser(u) ==
    /\ u # currentUser
    /\ currentUser' = u
    /\ transactions' = IF mounted THEN VisibleTo(allTransactions, u) ELSE transactions
    /\ UNCHANGED <<storage, mounted, allTransactions, vault, nextId, updates,
                   unrendered, mirror, last, undo>>

-----------------------------------------------------------------------------
(* Inputs *)

Times == 0..MaxClock

Breakdowns ==
    { [d \in {500} |-> 1],
      [d \in {500, 100} |-> IF d = 500 THEN 2 ELSE 1] }

\* Omit<Transaction, 'id' | 'date'>: the entry pages record the transaction
\* under the current identity
NewData ==
    [type : {"credit", "debit"}, paymentMethod : {"cash", "upi"},
     recordedBy : {currentUser}, breakdown : Breakdowns]

IdsOf(list) == {list[i].id : i \in 1..Len(list)}

\* An id no stored transaction has
UnknownId == StrId(0)

\* The records updateTransaction may be given in the current state
UpdateInputs ==
    [id : IdsOf(allTransactions), date : Times,
     type : {"credit", "debit"}, paymentMethod : {"cash", "upi"},
     recordedBy : Users, breakdown : Breakdowns]
    \cup {[id |-> UnknownId, date |-> 0, type |-> "credit", paymentMethod |-> "cash",
           recordedBy |-> currentUser, breakdown |-> [d \in {500} |-> 1]]}

\* The ids arrays deleteTransactionsByIds may be given: ids of the list in
\* the order of the list, or an id of no transaction
DeleteInputs ==
    {<<allTransactions[i].id>> : i \in 1..Len(allTransactions)}
    \cup {<<allTransactions[p[1]].id, allTransactions[p[2]].id>> :
            p \in {q \in (1..Len(allTransactions)) \X (1..Len(allTransactions)) :
                      q[1] < q[2] /\ allTransactions[q[1]].id # allTransactions[q[2]].id}}
    \cup {<<UnknownId>>}

\* The same arrays in any order, with an id repeated, or with an unknown id
DeleteInputsAnyOrder ==
    DeleteInputs
    \cup {<<a, b>> : a \in IdsOf(allTransactions) \cup {UnknownId},
                     b \in IdsOf(allTransactions)}
    \cup {<<a, UnknownId>> : a \in IdsOf(allTransactions)}

-----------------------------------------------------------------------------
(* Persisted data found at the first mount *)

RawEntries ==
    { Raw(FALSE, "none", EmptyId, "", "", NoDate, NoVal, NoObject),
      Raw(TRUE, "num", StrId(1), "credit", "cash", IsoDate(1), StrVal("alice"),
          Obj([d \in {500} |-> Num(10)])),
      Raw(TRUE, "str", EmptyId, "credit", "cash", IsoDate(1), StrVal("alice"),
          Obj([d \in {500} |-> Num(10)])),
      Raw(TRUE, "str", StrId(1), "credit", "cash", IsoDate(0), StrVal("alice"),
          Obj([d \in {100, 50, 20} |->
                 IF d = 100 THEN Num(-50) ELSE IF d = 50 THEN StrCount ELSE Num(37)])),
      Raw(TRUE, "str", StrId(1), "bogus", "bogus", BadDate, NoVal, NoObject),
      Raw(TRUE, "str", StrId(2), "debit", "cash", IsoDate(1), StrVal("bob"),
          Obj([d \in {500, 100, 20} |->
                 IF d = 500 THEN InfCount ELSE IF d = 100 THEN NaNCount ELSE Num(10)])),
      Raw(TRUE, "str", StrId(2), "debit", "upi", NumDate(0), StrVal("alice"),
          Obj([d \in {500} |-> Num(10)])),
      Raw(TRUE, "str", StrId(3), "credit", "cash", NumDate(1), StrVal("bob"),
          Obj([d \in {500, 7} |-> Num(20)])) }

RECURSIVE SeqsUpTo(_, _)
SeqsUpTo(S, n) ==
    IF n = 0 THEN {<<>>}
    ELSE LET shorter == SeqsUpTo(S, n - 1)
         IN  shorter \cup {Append(q, e) : q \in shorter, e \in S}

RawTxBlobs ==
    {AbsentTx, MalformedTx, NonArrayTx} \cup {ArrayTx(q) : q \in SeqsUpTo(RawEntries, MaxRaw)}

RawVaultBlobs ==
    { AbsentVault, MalformedVault, NonObjectVault,
      ObjectVault([d \in {500} |-> Num(20)]),
      ObjectVault([d \in {500, 100, 50, 20, 7} |->
                     IF d = 500 THEN Num(-10) ELSE IF d = 100 THEN Num(25)
                     ELSE IF d = 50 THEN StrCount ELSE IF d = 20 THEN NaNCount
                     ELSE Num(10)]) }

-----------------------------------------------------------------------------
(* Specifications *)

InitState ==
    /\ currentUser \in Users \cup {NoUser}
    /\ mounted = FALSE
    /\ allTransactions = <<>>
    /\ vault = initializeVault
    /\ transactions = <<>>
    /\ nextId = 0
    /\ updates = 0
    /\ unrendered = 0
    /\ last = Op("init")

\* A start on whatever an earlier session or version left in localStorage
InitLoad ==
    /\ storage \in [transactions : RawTxBlobs, vault : RawVaultBlobs]
    /\ undo = NoUndo(FALSE)
    /\ mirror = NoMirror(FALSE)
    /\ InitState

\* A first start: nothing is persisted yet
Init ==
    /\ storage = NoStorage
    /\ undo = NoUndo(FALSE)
    /\ mirror = NoMirror(FALSE)
    /\ InitState

\* The same start, with the history of the last delete recorded
InitUndo ==
    /\ storage = NoStorage
    /\ undo = NoUndo(TRUE)
    /\ mirror = NoMirror(FALSE)
    /\ InitState

Next ==
    \/ \E now \in Times : Mount(now)
    \/ \E now \in Times : Reload(now)
    \/ /\ Len(allTransactions) < MaxTx
       /\ nextId < MaxIds
       /\ \E data \in NewData, now \in Times : AddTransaction(data, now)
    \/ /\ updates < MaxUpdates
       /\ \E u \in UpdateInputs : UpdateTransaction(u)
    \/ \E ids \in DeleteInputs : DeleteTransactionsByIds(ids)
    \/ \E u \in Users \cup {NoUser} : SetUser(u)

Spec == Init /\ [][Next]_vars

\* Adds and deletes, with the history of the last delete recorded
NextUndo ==
    \/ \E now \in Times : Mount(now)
    \/ /\ Len(allTransactions) < MaxTx
       /\ nextId < MaxIds
       /\ \E data \in NewData, now \in Times : AddTransaction(data, now)
    \/ \E ids \in DeleteInputs : DeleteTransactionsByIds(ids)
    \/ \E u \in Users \cup {NoUser} : SetUser(u)

SpecUndo == InitUndo /\ [][NextUndo]_vars

\* The ledger operations on a list an earlier session or version left
InitLegacy ==
    /\ storage \in [transactions : RawTxBlobs, vault : {AbsentVault}]
    /\ undo = NoUndo(FALSE)
    /\ mirror = NoMirror(FALSE)
    /\ InitState

NextLegacy ==
    \/ \E now \in Times : Mount(now)
    \/ /\ Len(allTransactions) < MaxTx
       /\ nextId < 1
       /\ \E data \in NewData, now \in Times : AddTransaction(data, now)
    \/ /\ updates < MaxUpdates
       /\ \E u \in UpdateInputs : UpdateTransaction(u)
    \/ \E ids \in DeleteInputs : DeleteTransactionsByIds(ids)
    \/ \E u \in Users \cup {NoUser} : SetUser(u)

SpecLegacy == InitLegacy /\ [][NextLegacy]_vars

\* Cash adds alone, from a first start
CashData == {data \in NewData : data.paymentMethod = "cash"}

NextAdd ==
    \/ \E now \in Times : Mount(now)
    \/ /\ nextId < MaxAdds
       /\ \E data \in CashData, now \in Times : AddTransaction(data, now)

SpecAdd == Init /\ [][NextAdd]_vars

\* The load alone, on every persisted blob
NextLoad ==
    \/ \E now \in Times : Mount(now)
    \/ \E now \in Times : Reload(now)

SpecLoad == InitLoad /\ [][NextLoad]_vars

\* The ledger operations with their mirror calls followed, from a first start
InitMirror ==
    /\ storage = NoStorage
    /\ undo = NoUndo(FALSE)
    /\ mirror = NoMirror(TRUE)
    /\ InitState

NextMirror ==
    \/ \E now \in Times : Mount(now)
    \/ /\ Len(allTransactions) < MaxTx
       /\ nextId < MaxIds
       /\ Len(mirror.calls) < MaxPending
       /\ \E data \in CashData, now \in Times : AddTransaction(data, now)
    \/ /\ updates < MaxUpdates
       /\ Len(mirror.calls) < MaxPending
       /\ \E u \in UpdateInputs : UpdateTransaction(u)
    \/ /\ Len(mirror.runs) < MaxDeletes
       /\ Len(mirror.calls) < MaxPending
       /\ \E ids \in DeleteInputsAnyOrder : DeleteTransactionsByIds(ids)
    \/ \E i \in 1..Len(mirror.calls), outcome \in FetchOutcomes : MirrorReturns(i, outcome)

SpecMirror == InitMirror /\ [][NextMirror]_vars

\* Ledger operations called one after another before the store renders
NextBatch ==
    \/ \E now \in Times : Mount(now)
    \/ /\ Len(allTransactions) < MaxTx
       /\ nextId < MaxIds
       /\ \E data \in NewData, now \in Times : AddTransaction(data, now)
    \/ /\ updates < MaxBatch
       /\ unrendered < MaxBatch
       /\ \E u \in UpdateInputs : UpdateTransactionUnrendered(u)
    \/ /\ unrendered < MaxBatch
       /\ \E ids \in DeleteInputs : DeleteTransactionsByIdsUnrendered(ids)
    \/ Render

SpecBatch == Init /\ [][NextBatch]_vars

-----------------------------------------------------------------------------
(* Properties *)

\* C1: in every state of the mounted store, each denomination's vault count
\* is the sum over the cash transactions of the full list of +breakdown for
\* credits and -breakdown for debits.
VaultIsSignedSum ==
    mounted => \A d \in DENOMINATIONS : vault[d] = SumEffect(allTransactions, d)

\* Sum of breakdown[d] over the transactions of the given type in the list
RECURSIVE CountByType(_, _, _)
CountByType(list, type, d) ==
    IF list = <<>> THEN 0
    ELSE (IF Head(list).type = type THEN CountOf(Head(list).breakdown, d) ELSE 0)
         + CountByType(Tail(list), type, d)

\* C2: from a zeroed vault, after any sequence of cash adds each vault count
\* is the credits' breakdown minus the debits' breakdown, below zero too.
CashAddsSumUnclamped ==
    mounted => \A d \in DENOMINATIONS :
        vault[d] = CountByType(allTransactions, "credit", d)
                   - CountByType(allTransactions, "debit", d)

\* C2 witness: credit {500: 1}, debit {500: 1}, debit {500: 1} were added and
\* the vault holds -1 notes of 500
ThreeAddsBelowZero ==
    /\ last.op = "add"
    /\ Len(allTransactions) = 3
    /\ \A i \in 1..3 : allTransactions[i].breakdown = [d \in {500} |-> 1]
    /\ Cardinality({i \in 1..3 : allTransactions[i].type = "debit"}) = 2
    /\ vault[500] = -1

-----------------------------------------------------------------------------
(* updateTransaction and the vault *)

\* The step is a call of updateTransaction, with last'.tx the record given
IsUpdateStep == updates' = updates + 1 /\ last'.op = "update"

\* The record the full list holds under an id
StoredUnder(list, id) == CHOOSE t \in Range(list) : t.id = id

\* C3: an update of a transaction of the rendered list changes each vault
\* count by minus the stored record's effect plus the new record's effect;
\* with the stored record given again the vault is unchanged.
UpdateRevertsThenApplies ==
    [][(IsUpdateStep /\ (\E i \in 1..Len(transactions) : transactions[i].id = last'.tx.id))
       => LET u == last'.tx
              orig == StoredUnder(allTransactions, u.id)
          IN  /\ \A d \in DENOMINATIONS :
                    vault'[d] = vault[d] - Effect(orig, d) + Effect(u, d)
              /\ (u = orig => vault' = vault)]_vars

\* C3 witness: a visible cash credit was updated to a cash debit, which took
\* the 500 count below zero
UpdatedVisibleToDebit ==
    /\ last.op = "update"
    /\ last.hit
    /\ last.tx.type = "debit"
    /\ last.tx.paymentMethod = "cash"
    /\ \E i \in 1..Len(allTransactions) : allTransactions[i] = last.tx
    /\ vault[500] < 0
    /\ \A d \in DENOMINATIONS : vault[d] = SumEffect(allTransactions, d)

-----------------------------------------------------------------------------
(* Delete, then add again *)

Equivalent(a, b) ==
    /\ a.type = b.type
    /\ a.paymentMethod = b.paymentMethod
    /\ a.recordedBy = b.recordedBy
    /\ a.breakdown = b.breakdown

\* C4: a delete of one transaction of the list by its id, followed by an add
\* of a record with the same type, paymentMethod, recordedBy and breakdown,
\* leaves every vault count as it was before the delete.
ReaddRestoresVault ==
    (undo.stage = "readded" /\ last.op = "add" /\ Equivalent(undo.tx, last.tx))
    => \A d \in DENOMINATIONS : vault[d] = undo.vault0[d]

-----------------------------------------------------------------------------
(* The load *)

Loaded == mounted /\ last.op = "load"

ZeroVaultBlob == ObjectVault([d \in DENOMINATIONS |-> Num(0)])

\* The load threw: JSON.parse rejected one of the two blobs
ParseThrew ==
    \/ last.storage0.transactions.k = "malformed"
    \/ last.storage0.vault.k = "malformed"

\* C5 (as stated): after a load whose parse threw, the list is empty, the
\* vault is zero and both persisted keys are absent.
MalformedLoadClearsKeys ==
    (Loaded /\ ParseThrew)
    => /\ allTransactions = <<>>
       /\ vault = initializeVault
       /\ storage.transactions.k = "absent"
       /\ storage.vault.k = "absent"

\* C5 (amended): after a load whose parse threw, the list is empty, the vault
\* is zero, and both persisted keys hold the empty list and the zeroed vault
\* that the persistence effects write after the load removed the keys.
MalformedLoadResets ==
    (Loaded /\ ParseThrew)
    => /\ allTransactions = <<>>
       /\ transactions = <<>>
       /\ vault = initializeVault
       /\ storage.transactions = ArrayTx(<<>>)
       /\ storage.vault = ZeroVaultBlob

\* C5 witness: the vault blob was malformed while the transaction blob held
\* a record the migration keeps
MalformedVaultValidList ==
    /\ Loaded
    /\ last.storage0.vault.k = "malformed"
    /\ last.storage0.transactions.k = "json"
    /\ \E i \in 1..Len(last.storage0.transactions.items) :
          LET raw == last.storage0.transactions.items[i]
          IN  raw.isObject /\ raw.id.k = "str" /\ raw.id.v # EmptyId
    /\ allTransactions = <<>>
    /\ vault = initializeVault

\* The load read an array of raw entries and did not throw
LoadedArray ==
    /\ Loaded
    /\ ~ParseThrew
    /\ last.storage0.transactions.k = "json"
    /\ last.storage0.transactions.isArray

RawItems == last.storage0.transactions.items

RecordWithStringId(raw) == raw.isObject /\ raw.id.k = "str"
RecordWithNonEmptyStringId(raw) == RecordWithStringId(raw) /\ raw.id.v.pre # ""

\* C6 (as stated): the sanitized list has one transaction for each raw entry
\* that is a record with a string id, and none for the others.
KeepsEveryStringId ==
    LoadedArray
    => /\ Len(allTransactions)
            = Cardinality({i \in 1..Len(RawItems) : RecordWithStringId(RawItems[i])})
       /\ \A i \in 1..Len(RawItems) :
             RecordWithStringId(RawItems[i]) <=> RawItems[i].id.v \in IdsOf(allTransactions)

\* C6 (amended): the sanitized list has one transaction for each raw entry
\* that is a record with a non-empty string id, with its type, payment method
\* and recorder defaulted where invalid, and none for the others.
KeepsEveryNonEmptyStringId ==
    LoadedArray
    => /\ Len(allTransactions)
            = Cardinality({i \in 1..Len(RawItems) : RecordWithNonEmptyStringId(RawItems[i])})
       /\ \A i \in 1..Len(RawItems) :
             RecordWithNonEmptyStringId(RawItems[i])
             => \E j \in 1..Len(allTransactions) :
                   /\ allTransactions[j].id = RawItems[i].id.v
                   /\ allTransactions[j].type \in {"credit", "debit"}
                   /\ allTransactions[j].paymentMethod \in {"cash", "upi"}
       /\ \A j \in 1..Len(allTransactions) :
             \E i \in 1..Len(RawItems) :
                /\ RecordWithNonEmptyStringId(RawItems[i])
                /\ RawItems[i].id.v = allTransactions[j].id

\* C6 witness: a raw list of one entry with a numeric id and one with a
\* string id was sanitized to a list of length 1
NumericIdDropped ==
    /\ LoadedArray
    /\ Len(RawItems) = 2
    /\ RawItems[1].isObject /\ RawItems[1].id.k = "num"
    /\ RecordWithNonEmptyStringId(RawItems[2])
    /\ Len(allTransactions) = 1
    /\ allTransactions[1].id = RawItems[2].id.v

\* The raw entries the migration keeps under an id no other kept entry has
SoleKept(i) ==
    /\ RecordWithNonEmptyStringId(RawItems[i])
    /\ \A j \in 1..Len(RawItems) :
          (j # i /\ RecordWithNonEmptyStringId(RawItems[j]))
          => RawItems[j].id.v # RawItems[i].id.v

\* C7: the sanitized breakdown of a cash transaction has a key for exactly
\* the configured denominations whose raw count is a finite number >= 0, with
\* that count floored; the sanitized breakdown of a upi transaction is empty.
BreakdownSanitized ==
    LoadedArray
    => \A i \in 1..Len(RawItems) :
          SoleKept(i)
          => LET raw == RawItems[i]
                 b == StoredUnder(allTransactions, raw.id.v).breakdown
             IN  /\ DOMAIN b \subseteq DENOMINATIONS
                 /\ raw.paymentMethod = "upi" => DOMAIN b = {}
                 /\ raw.paymentMethod # "upi" =>
                       \A d \in DENOMINATIONS :
                          /\ d \in DOMAIN b
                             <=> /\ raw.breakdown.k = "obj"
                                 /\ d \in DOMAIN raw.breakdown.m
                                 /\ raw.breakdown.m[d].k = "num"
                                 /\ raw.breakdown.m[d].v >= 0
                          /\ d \in DOMAIN b
                             => /\ 10 * b[d] <= raw.breakdown.m[d].v
                                /\ raw.breakdown.m[d].v < 10 * b[d] + 10

\* C7 witness: the raw breakdown {100: -5, 50: "x", 20: 3.7} of a cash entry
\* was sanitized to {20: 3}
ExampleBreakdownSanitized ==
    /\ LoadedArray
    /\ \E i \in 1..Len(RawItems) :
          /\ SoleKept(i)
          /\ RawItems[i].paymentMethod = "cash"
          /\ RawItems[i].breakdown
                = Obj([d \in {100, 50, 20} |->
                         IF d = 100 THEN Num(-50) ELSE IF d = 50 THEN StrCount
                         ELSE Num(37)])
          /\ StoredUnder(allTransactions, RawItems[i].id.v).breakdown = [d \in {20} |-> 3]

-----------------------------------------------------------------------------
(* Ids, dates and order *)

\* C8: no two transactions of the full list have the same id.
UniqueIds ==
    \A i, j \in 1..Len(allTransactions) :
        i # j => allTransactions[i].id # allTransactions[j].id

\* C9: an update leaves every stored transaction under its id with the date
\* it had, whatever date the supplied record carries.
UpdateKeepsIdAndDate ==
    [][IsUpdateStep
          => /\ IdsOf(allTransactions') = IdsOf(allTransactions)
             /\ \A i \in 1..Len(allTransactions), j \in 1..Len(allTransactions') :
                   allTransactions[i].id = allTransactions'[j].id
                   => allTransactions'[j].date = allTransactions[i].date]_vars

SortedByDateDesc(list) ==
    \A i, j \in 1..Len(list) : i < j => list[i].date >= list[j].date

\* C10: the list exposed to consumers is sorted by date, newest first, after
\* load and after every add, update, delete and change of identity.
ExposedListSorted == SortedByDateDesc(transactions)

\* C10 witness: an update moved a record of the exposed list to the front by
\* giving it the newest date
UpdatedRecordSortedFirst ==
    /\ last.op = "update"
    /\ last.hit
    /\ Len(transactions) = 2
    /\ transactions[1] = last.tx
    /\ transactions[1].date > transactions[2].date
    /\ transactions[1].id.pre = "txn"
    /\ transactions[2].id.pre = "s"

-----------------------------------------------------------------------------
(* Breakdown of upi transactions *)

\* C11: every transaction of the full list whose paymentMethod is upi has an
\* empty breakdown, after load and after every add and update.
UpiBreakdownEmpty ==
    \A i \in 1..Len(allTransactions) :
        allTransactions[i].paymentMethod = "upi"
        => DOMAIN allTransactions[i].breakdown = {}

-----------------------------------------------------------------------------
(* The remote mirror and the local state *)

\* The step is the return of an awaited mirror call
IsReturnStep == mirror'.returns = mirror.returns + 1

\* The step is a ledger operation that starts a mirror call and awaits it
IsCallStep ==
    /\ mounted
    /\ mirror'.returns = mirror.returns
    /\ Len(mirror'.calls) = Len(mirror.calls) + 1

\* C12: the return of a mirror call, whatever it reports, leaves the list,
\* the vault, the rendered list and the persisted blobs as they are; and the
\* step of add, update or delete that starts the call has already applied the
\* local mutation, so the state is the same while the call never returns.
MirrorNeverAltersLocalState ==
    [][/\ IsReturnStep
          => UNCHANGED <<allTransactions, vault, transactions, storage>>
       /\ (IsCallStep /\ last'.op = "add")
          => /\ last'.tx \in Range(allTransactions')
             /\ Len(allTransactions') = Len(allTransactions) + 1
             /\ \A d \in DENOMINATIONS : vault'[d] = vault[d] + Effect(last'.tx, d)
       /\ (IsCallStep /\ last'.op = "update")
          => /\ last'.tx.id \in IdsOf(allTransactions)
                  => last'.tx \in Range(allTransactions')
             /\ (\E i \in 1..Len(transactions) : transactions[i].id = last'.tx.id)
                  => \A d \in DENOMINATIONS :
                        vault'[d] = vault[d]
                                    - Effect(StoredUnder(allTransactions, last'.tx.id), d)
                                    + Effect(last'.tx, d)
       /\ (IsCallStep /\ last'.op = "delete")
          => IdsOf(allTransactions') = IdsOf(allTransactions) \ last'.ids]_vars

\* C12 witness: the mirror reported failure for an added cash transaction;
\* the list holds the transaction and the vault its notes
MirrorAddFailed ==
    /\ mirror.lastReturn.op = "addTransaction"
    /\ ~mirror.lastReturn.result
    /\ Len(allTransactions) = 1
    /\ allTransactions[1].id = mirror.lastReturn.id
    /\ \A d \in DENOMINATIONS : vault[d] = Effect(allTransactions[1], d)
    /\ vault[500] # 0
    /\ storage = Persisted(allTransactions, vault)

\* C13: when a mirror call started by add, update or delete reports failure,
\* syncStatus becomes error.
FailedCallSetsError ==
    [][(/\ IsReturnStep
        /\ mirror'.lastReturn.op
              \in {"addTransaction", "updateTransaction", "deleteTransaction"}
        /\ ~mirror'.lastReturn.result)
       => mirror'.syncStatus = "error"]_vars

\* The requests a delete of ids is to send, each followed by its return
RECURSIVE Expected(_)
Expected(ids) ==
    IF ids = <<>> THEN <<>>
    ELSE <<[ev |-> "send", id |-> Head(ids)], [ev |-> "return", id |-> Head(ids)]>>
         \o Expected(Tail(ids))

\* The delete requests sent and returned for the r-th delete, in their order
LogOfRun(r) ==
    LET OfRun(e) == e.run = r
        own == SelectSeq(mirror.log, OfRun)
    IN  [i \in 1..Len(own) |-> [ev |-> own[i].ev, id |-> own[i].id]]

AwaitedOfRun(r) ==
    {i \in 1..Len(mirror.calls) :
        mirror.calls[i].op = "deleteTransaction" /\ mirror.calls[i].run = r}

\* C16: the delete requests of one deleteTransactionsByIds(ids) are sent one
\* for each element of ids in the order of ids, each after the return of the
\* one before, whatever that one reported; when none is awaited any more,
\* every element has had its request.
DeleteCallsSequential ==
    \A r \in 1..Len(mirror.runs) :
        LET sent == LogOfRun(r)
            all == Expected(mirror.runs[r])
        IN  /\ Len(sent) <= Len(all)
            /\ sent = SubSeq(all, 1, Len(sent))
            /\ Cardinality(AwaitedOfRun(r)) <= 1
            /\ AwaitedOfRun(r) # {} <=> Len(sent) % 2 = 1
            /\ AwaitedOfRun(r) = {} => sent = all

\* C16 witness: a delete of two different ids sent the second request after
\* the first had reported failure, and both have returned
SecondSentAfterFailure ==
    /\ Len(mirror.runs) = 1
    /\ Len(mirror.runs[1]) = 2
    /\ mirror.runs[1][1] # mirror.runs[1][2]
    /\ Len(mirror.log) = 4
    /\ mirror.log[2].ev = "return" /\ ~mirror.log[2].ok
    /\ mirror.log[3].ev = "send" /\ mirror.log[3].id = mirror.runs[1][2]
    /\ mirror.log[4].ev = "return"

-----------------------------------------------------------------------------
(* Update of a transaction outside the rendered list *)

\* C14: an update whose id is not in the rendered list leaves the vault as it
\* was; when the full list holds the id, the records stored under it are
\* replaced by the supplied one and the others are kept.
UpdateOutsideViewKeepsVault ==
    [][(IsUpdateStep /\ ~(\E i \in 1..Len(transactions) : transactions[i].id = last'.tx.id))
       => LET u == last'.tx
          IN  /\ vault' = vault
              /\ Len(allTransactions') = Len(allTransactions)
              /\ \A t \in Range(allTransactions) :
                    IF t.id = u.id THEN u \in Range(allTransactions')
                    ELSE t \in Range(allTransactions')
              /\ \A t \in Range(allTransactions') :
                    t.id = u.id => t = u]_vars

\* C14 witness: a cash credit recorded by another identity was updated to a
\* cash debit: the list holds the debit, the vault still the credit's note
UpdatedOutsideView ==
    /\ last.op = "update"
    /\ ~last.hit
    /\ last.tx.type = "debit"
    /\ last.tx.paymentMethod = "cash"
    /\ allTransactions = <<last.tx>>
    /\ vault[500] > 0

-----------------------------------------------------------------------------
(* Delete: the list and the vault *)

\* C15: a delete removes from the full list exactly the transactions whose id
\* is in ids, keeping the others in their order, and changes each vault count
\* by the reverse of the cash effect of the rendered transactions whose id is
\* in ids; upi transactions and ids of no rendered transaction change nothing.
DeleteRemovesAndReverts ==
    [][(last'.op = "delete" /\ currentUser' = currentUser)
       => LET ids == last'.ids
              InIds(tx) == tx.id \in ids
              NotInIds(tx) == tx.id \notin ids
              reverted == SelectSeq(transactions, InIds)
          IN  /\ allTransactions' = SelectSeq(allTransactions, NotInIds)
              /\ \A d \in DENOMINATIONS :
                    vault'[d] = vault[d] - SumEffect(reverted, d)
              /\ (\A i \in 1..Len(reverted) : reverted[i].paymentMethod = "upi")
                    => vault' = vault]_vars

\* C15 witness: a rendered cash debit was deleted and its notes were added
\* back to the vault, while another transaction stayed in the list
DeletedVisibleDebit ==
    /\ last.op = "delete"
    /\ undo.stage = "deleted"
    /\ undo.tx.type = "debit"
    /\ undo.tx.paymentMethod = "cash"
    /\ undo.tx.recordedBy = currentUser
    /\ \A d \in DOMAIN undo.tx.breakdown :
          vault[d] = undo.vault0[d] + undo.tx.breakdown[d]
    /\ Len(allTransactions) = 1
    /\ undo.tx.id \notin IdsOf(allTransactions)

-----------------------------------------------------------------------------
(* Operations called one after another before a render *)

\* The list the store would expose from its current state
CurrentView == VisibleTo(allTransactions, currentUser)

\* C17: every update and delete acts on the list the operation before it
\* left, rendered or not: an update of an identity's transaction changes each
\* vault count by minus the effect of the record now stored plus the effect
\* of the new one, and a delete reverts the effect of the identity's
\* transactions now stored under ids, so a second delete of an id reverts
\* nothing.
MutationsActOnCurrentList ==
    [][/\ (IsUpdateStep /\ (\E i \in 1..Len(CurrentView) : CurrentView[i].id = last'.tx.id))
          => \A d \in DENOMINATIONS :
                vault'[d] = vault[d]
                            - Effect(StoredUnder(allTransactions, last'.tx.id), d)
                            + Effect(last'.tx, d)
       /\ (last'.op = "delete" /\ unrendered' = unrendered + 1)
          => LET InIds(tx) == tx.id \in last'.ids
             IN  \A d \in DENOMINATIONS :
                    vault'[d] = vault[d] - SumEffect(SelectSeq(CurrentView, InIds), d)]_vars

-----------------------------------------------------------------------------
(* Persist and load back *)

\* C18: a load of what the store persisted yields the transaction list and
\* the vault the store had, a vault count below zero included.
ReloadKeepsState ==
    [][(mounted /\ last'.op = "load" /\ last'.storage0 = storage
          /\ storage = Persisted(allTransactions, vault))
       => /\ allTransactions' = allTransactions
          /\ vault' = vault]_vars

====
